---- MODULE Spec2Model ----
(***************************************************************************)
(* Model of the Trainify translation/chat server (Express application):    *)
(* the upload middleware, the /api/translate and /api/chat handlers, the   *)
(* file extractor and the cleanup routine.  Every handler is split at its  *)
(* await points; the file system, the PDF parser and the GROQ gateway are  *)
(* the environment and answer nondeterministically.                        *)
(***************************************************************************)
EXTENDS Integers, Sequences, FiniteSets, TLC

(***************************************************************************)
(* Bounds of the model.                                                    *)
(***************************************************************************)
NumReq == 2          \* request slots (connections the server tracks)
MaxRequests == 1     \* requests served in one run
MaxClock == 1        \* Date.now() takes the values 0..MaxClock
MaxRand == 1         \* Math.round(Math.random() * 1E9) takes the values 0..MaxRand
MaxChats == 2        \* conversations the user creates or copies in one run

Req == 1..NumReq

(***************************************************************************)
(* Program constants.                                                      *)
(***************************************************************************)
TruncLimit == 2000   \* fileContent.substring(0, 2000)

(***************************************************************************)
(* JavaScript values: a tag and a printed value.                           *)
(***************************************************************************)
Undefined == [t |-> "undefined", v |-> ""]
Null == [t |-> "null", v |-> ""]
Str(s) == [t |-> "string", v |-> s]
Num(s) == [t |-> "number", v |-> s]
Bool(s) == [t |-> "boolean", v |-> s]
Obj(s) == [t |-> "object", v |-> s]
Fn(s) == [t |-> "function", v |-> s]

\* ToBoolean of the language: what `!x` and `x || y` test.
Truthy(x) ==
    CASE x.t = "undefined" -> FALSE
      [] x.t = "null" -> FALSE
      [] x.t = "string" -> x.v # ""
      [] x.t = "number" -> x.v \notin {"0", "NaN"}
      [] x.t = "boolean" -> x.v = "true"
      [] OTHER -> TRUE

\* a || b
OrElse(a, b) == IF Truthy(a) THEN a ELSE b

\* ToString, as used for a property key and inside a template literal.
ToStr(x) ==
    CASE x.t = "undefined" -> "undefined"
      [] x.t = "null" -> "null"
      [] x.t = "object" -> "[object Object]"
      [] OTHER -> x.v

(***************************************************************************)
(* Texts (file contents) are kept as runs of equal characters: the run     *)
(* [c |-> "a", n |-> 3] is "aaa".  File names are sequences of characters. *)
(***************************************************************************)
Run(c, n) == [c |-> c, n |-> n]

WhiteSpace == {" ", "\n", "\t"}

RECURSIVE Length(_)
\* s.length
Length(s) == IF s = <<>> THEN 0 ELSE Head(s).n + Length(Tail(s))

RECURSIVE TrimStart(_)
TrimStart(s) ==
    IF s # <<>> /\ Head(s).c \in WhiteSpace THEN TrimStart(Tail(s)) ELSE s

RECURSIVE TrimEnd(_)
TrimEnd(s) ==
    IF s # <<>> /\ s[Len(s)].c \in WhiteSpace
    THEN TrimEnd(SubSeq(s, 1, Len(s) - 1))
    ELSE s

\* String.prototype.trim
Trim(s) == TrimEnd(TrimStart(s))

RECURSIVE Take(_, _)
\* The first n characters of s, all of s when it is shorter.
Take(s, n) ==
    IF s = <<>> \/ n <= 0 THEN <<>>
    ELSE IF Head(s).n <= n THEN <<Head(s)>> \o Take(Tail(s), n - Head(s).n)
    ELSE <<Run(Head(s).c, n)>>

\* substring(0, n) with the limit off by one.
SubstringOffByOne(s, n) == Take(s, n + 1)

\* s.substring(0, n)
Substring(s, n) == Take(s, n)

LowerChar(c) ==
    CASE c = "P" -> "p"
      [] c = "D" -> "d"
      [] c = "F" -> "f"
      [] c = "T" -> "t"
      [] c = "X" -> "x"
      [] OTHER -> c

\* String.prototype.toLowerCase
ToLowerCase(s) == [i \in 1..Len(s) |-> LowerChar(s[i])]

RECURSIVE Join(_)
Join(s) == IF s = <<>> THEN "" ELSE Head(s) \o Join(Tail(s))

RECURSIVE LastDot(_)
LastDot(s) ==
    IF s = <<>> THEN 0
    ELSE IF s[Len(s)] = "." THEN Len(s)
    ELSE LastDot(SubSeq(s, 1, Len(s) - 1))

\* path.extname: from the last dot to the end; empty when there is no dot or
\* the only dot is the first character of the name.
ExtName(name) ==
    IF LastDot(name) <= 1 THEN <<>>
    ELSE SubSeq(name, LastDot(name), Len(name))

(***************************************************************************)
(* Inputs and environment answers, drawn from small sets.                  *)
(***************************************************************************)
\* Bytes of an uploaded text file.  "xFF" stands for a byte that is not UTF-8.
TxtData ==
    { <<>>,
      <<Run("\n", 1), Run(" ", 2)>>,
      <<Run(" ", 1), Run("h", 1), Run("xFF", 1)>>,
      <<Run("a", TruncLimit), Run("b", 1)>> }

\* Bytes of an uploaded PDF, and the texts pdf-parse may extract from them.
PdfData == { <<Run("%PDF", 1)>> }
PdfTexts ==
    { <<>>, <<Run("\n", 1)>>, <<Run("h", 1), Run("i", 1)>>, <<Run("a", TruncLimit)>> }

\* Bytes of an upload of any other type.
OtherData == { <<Run("PK", 1)>> }

\* Uploaded parts: originalname and bytes.
Part(originalname, data) == [originalname |-> originalname, data |-> data]

Parts ==
    { Part(<<"a", ".", "p", "d", "f">>, d) : d \in PdfData }
    \cup { Part(<<"b", ".", "t", "x", "t">>, d) : d \in TxtData }
    \cup { Part(<<"c", ".", "T", "X", "T">>, d) : d \in TxtData }
    \cup { Part(n, d) : n \in { <<"d", ".", "d", "o", "c", "x">>, <<"e">>,
                                <<".", "t", "x", "t">> },
                        d \in OtherData }

\* targetLanguage field of the multipart body.
TargetLanguages == { Undefined, Str(""), Str("French") }

\* Buffer.prototype.toString('utf8'): a byte that is not UTF-8 decodes to U+FFFD.
Utf8Decode(data) ==
    [i \in 1..Len(data) |->
        IF data[i].c = "xFF" THEN Run("uFFFD", data[i].n) ELSE data[i]]

\* Body of a completion the gateway resolves with.
Choice(hasMessage, hasContent, content) ==
    [hasMessage |-> hasMessage, hasContent |-> hasContent, content |-> content]
Completion(hasChoices, choices) ==
    [resolved |-> TRUE, hasChoices |-> hasChoices, choices |-> choices]

GatewayBodies ==
    { Completion(FALSE, <<>>),
      Completion(TRUE, <<>>),
      Completion(TRUE, <<Choice(FALSE, FALSE, "")>>),
      Completion(TRUE, <<Choice(TRUE, FALSE, "")>>),
      Completion(TRUE, <<Choice(TRUE, TRUE, "")>>),
      Completion(TRUE, <<Choice(TRUE, TRUE, "hola")>>) }

NoCompletion == [resolved |-> FALSE, hasChoices |-> FALSE, choices |-> <<>>]

\* Messages of the errors the gateway client rejects with.
GatewayErrors == { "Connection error." }

\* response.choices[0]?.message?.content: a TypeError when choices is absent,
\* undefined when the chain stops early.
ContentOf(response) ==
    IF ~response.hasChoices THEN [threw |-> TRUE, val |-> Undefined]
    ELSE IF response.choices = <<>> THEN [threw |-> FALSE, val |-> Undefined]
    ELSE IF ~response.choices[1].hasMessage THEN [threw |-> FALSE, val |-> Undefined]
    ELSE IF ~response.choices[1].hasContent THEN [threw |-> FALSE, val |-> Undefined]
    ELSE [threw |-> FALSE, val |-> Str(response.choices[1].content)]

TypeErrorChoices == "Cannot read properties of undefined (reading '0')"

(***************************************************************************)
(* State.                                                                  *)
(***************************************************************************)
VARIABLES
    now,            \* Date.now()
    served,         \* number of requests that have arrived
    disk,           \* the files on disk: path -> bytes
    pc,             \* pc[r]: where the handler of request r stands
    route,          \* route[r]: "translate", "chat" or "" when the slot is free
    upload,         \* the file part request r was sent with
    reqFile,        \* req.file of request r
    reqBody,        \* req.body of request r
    fileData,       \* const data: the buffer fs.readFile resolved with
    fileContent,    \* const fileContent (translate)
    targetLang,     \* const targetLang (translate)
    language,       \* const language (chat), after the default is applied
    response,       \* const response: what the gateway resolved with
    translatedText, \* const translatedText (translate)
    error,          \* error.message of the exception the catch block holds
    gatewayCalls,   \* the calls of groq.chat.completions.create made for r
    unlinkCalls,    \* the calls of fs.unlink made for r, with their outcome
    health,         \* the last answer of GET /health
    res,            \* the HTTP response sent for r
    clientNow,      \* Date.now() in the browser
    created,        \* number of conversations created or copied
    issued,         \* number of fetch calls the client has made
    mounted,        \* where the mount of <App/> stands
    queued,         \* state updates the mount effects have queued
    chats,          \* useState: the conversation list
    currentChat,    \* useState: the selected conversation, a chat or null
    pinnedChats,    \* useState: the ids of the pinned conversations
    isLoading,      \* useState
    isUploading,    \* useState
    call,           \* the fetch call in flight, with the closure that awaits it
    uploadData,     \* the body the last upload continuation read
    storage,        \* localStorage: 'trainify-chats' and 'trainify-pinned'
    deleted         \* history: the ids whose deletion the user confirmed

\* The state of the browser application.
clientVars == << clientNow, created, issued, mounted, queued, chats, currentChat,
                pinnedChats, isLoading, isUploading, call, uploadData, storage,
                deleted >>

\* The state of the server.
serverVars == << health, now, served, disk, pc, route, upload, reqFile, reqBody, fileData,
                fileContent, targetLang, language, response, translatedText, error,
                gatewayCalls, unlinkCalls, res >>

vars == << clientVars, health, now, served, disk, pc, route, upload, reqFile, reqBody, fileData,
           fileContent, targetLang, language, response, translatedText, error, gatewayCalls, unlinkCalls, res >>

NoPart == [present |-> FALSE, originalname |-> <<>>, data |-> <<>>]
NoData == [read |-> FALSE, bytes |-> <<>>]
NoFile == [present |-> FALSE, path |-> "", originalname |-> <<>>]
NoBody == [targetLanguage |-> Undefined, message |-> Undefined, language |-> Undefined]
NoRes == [sent |-> FALSE, status |-> 0, by |-> "", body |-> [error |-> ""]]
NoHealth == [sent |-> FALSE, status |-> 0,
             body |-> [status |-> "", services |-> [fileTranslation |-> "", chat |-> ""],
                       timestamp |-> 0]]

(***************************************************************************)
(* The browser application <App/>: its values.                             *)
(***************************************************************************)
\* new Date(ms); Date.prototype.toJSON, which JSON.stringify applies; and
\* new Date(isoString), which the load effect applies to what JSON.parse gave.
NewDate(ms) == [t |-> "date", ms |-> ms]
ToJSON(date) == [t |-> "isostring", ms |-> date.ms]
DateOf(value) == [t |-> "date", ms |-> value.ms]

\* A literal piece of text.
Lit(str) == <<Run(str, 1)>>

NewMessage(id, content, sender, ms) ==
    [id |-> id, content |-> content, sender |-> sender, timestamp |-> NewDate(ms)]

NewChat(id, title, messages, ms, lang) ==
    [id |-> id, title |-> title, messages |-> messages, createdAt |-> NewDate(ms),
     language |-> lang, modelType |-> "standard"]

\* JSON.stringify of the conversation list: dates become ISO strings.
StringifyChat(chat) ==
    [chat EXCEPT !.createdAt = ToJSON(chat.createdAt),
                 !.messages = [i \in 1..Len(chat.messages) |->
                                  [chat.messages[i] EXCEPT
                                      !.timestamp = ToJSON(chat.messages[i].timestamp)]]]

\* JSON.parse followed by the forEach that turns the strings back into dates.
ReviveChat(json) ==
    [json EXCEPT !.createdAt = DateOf(json.createdAt),
                 !.messages = [i \in 1..Len(json.messages) |->
                                  [json.messages[i] EXCEPT
                                      !.timestamp = DateOf(json.messages[i].timestamp)]]]

\* An item of localStorage: absent (getItem gives null) or a JSON text.
NoItem == [present |-> FALSE, json |-> <<>>]
StringifyChats(list) ==
    [present |-> TRUE, json |-> [i \in 1..Len(list) |-> StringifyChat(list[i])]]
ParseChats(item) == [i \in 1..Len(item.json) |-> ReviveChat(item.json[i])]
StringifyIds(ids) == [present |-> TRUE, json |-> ids]
ParseIds(item) == item.json

\* A fetch call that is not in flight, and the closure of one that is: the
\* values of the render in which the handler was called.
NoCall ==
    [active |-> FALSE, kind |-> "", chats |-> <<>>, currentChat |-> Null,
     updatedChat |-> Null, userMessage |-> Null,
     request |-> [message |-> <<>>, language |-> "", modelType |-> "", file |-> ""]]

NoUploadData == [read |-> FALSE, body |-> [success |-> FALSE]]

ClientStart(stored) ==
    /\ clientNow = 0
    /\ created = 0
    /\ issued = 0
    /\ mounted = "rendered"
    /\ queued = [chats |-> <<>>, pinned |-> <<>>]
    /\ chats = <<>>
    /\ currentChat = Null
    /\ pinnedChats = <<>>
    /\ isLoading = FALSE
    /\ isUploading = FALSE
    /\ call = NoCall
    /\ uploadData = NoUploadData
    /\ storage = stored
    /\ deleted = {}

\* The application starts in a browser that has not stored anything yet.
ClientInit == ClientStart([chats |-> NoItem, pinned |-> NoItem])

ServerInit ==
    /\ now = 0
    /\ served = 0
    /\ disk = << >>
    /\ pc = [r \in Req |-> "idle"]
    /\ route = [r \in Req |-> ""]
    /\ upload = [r \in Req |-> NoPart]
    /\ reqFile = [r \in Req |-> NoFile]
    /\ reqBody = [r \in Req |-> NoBody]
    /\ fileData = [r \in Req |-> NoData]
    /\ fileContent = [r \in Req |-> <<>>]
    /\ targetLang = [r \in Req |-> Undefined]
    /\ language = [r \in Req |-> Undefined]
    /\ response = [r \in Req |-> NoCompletion]
    /\ translatedText = [r \in Req |-> Undefined]
    /\ error = [r \in Req |-> ""]
    /\ gatewayCalls = [r \in Req |-> <<>>]
    /\ unlinkCalls = [r \in Req |-> <<>>]
    /\ res = [r \in Req |-> NoRes]
    /\ health = NoHealth

Init == ServerInit /\ ClientInit

\* The clock advances.
Tick ==
    /\ now < MaxClock
    /\ now' = now + 1
    /\ UNCHANGED << clientVars, health, served, disk, pc, route, upload, reqFile, reqBody, fileData, fileContent, targetLang, language,
                    response, translatedText, error, gatewayCalls, unlinkCalls, res >>

(***************************************************************************)
(* The upload middleware: upload.single('file').                           *)
(***************************************************************************)
AllowedTypes == { <<".", "p", "d", "f">>, <<".", "t", "x", "t">> }

\* A filter that lets every file through.
FileFilterAny(originalname) == TRUE

\* fileFilter: the lower-cased extension of the original name is allowed.
FileFilter(originalname) == ToLowerCase(ExtName(originalname)) \in AllowedTypes

FilterError == "Only PDF and TXT files are allowed"

\* storage.filename: Date.now() + '-' + random + extname(originalname).
FileName(clock, rnd, originalname) ==
    ToString(clock) \o "-" \o ToString(rnd) \o Join(ExtName(originalname))

\* destination 'uploads/' joined with the generated name: req.file.path.
FilePath(clock, rnd, originalname) == "uploads/" \o FileName(clock, rnd, originalname)

\* A new request takes the first free slot: which slot holds a request has no
\* meaning in the program.
Fresh(r) == pc[r] = "idle" /\ \A q \in Req : q < r => pc[q] # "idle"

\* A multipart request with a file part arrives.  The filter either rejects it
\* (the error goes to the framework's error handling, the handler never runs and
\* nothing is written) or the part is stored under the generated name.
Upload(r, originalname, data, tl) ==
    /\ Fresh(r)
    /\ route' = [route EXCEPT ![r] = "translate"]
    /\ upload' = [upload EXCEPT ![r] =
                     [present |-> TRUE, originalname |-> originalname, data |-> data]]
    /\ reqBody' = [reqBody EXCEPT ![r] = [NoBody EXCEPT !.targetLanguage = tl]]
    /\ IF FileFilter(originalname)
       THEN \E rnd \in 0..MaxRand :
              /\ disk' = (FilePath(now, rnd, originalname) :> data) @@ disk
              /\ reqFile' = [reqFile EXCEPT ![r] =
                    [present |-> TRUE, path |-> FilePath(now, rnd, originalname),
                     originalname |-> originalname]]
              /\ pc' = [pc EXCEPT ![r] = "t_handler"]
              /\ UNCHANGED << error, res >>
       ELSE /\ error' = [error EXCEPT ![r] = FilterError]
            /\ res' = [res EXCEPT ![r] =
                  [sent |-> TRUE, status |-> 500, by |-> "errorHandler",
                   body |-> [error |-> FilterError]]]
            /\ pc' = [pc EXCEPT ![r] = "done"]
            /\ UNCHANGED << disk, reqFile >>
    /\ UNCHANGED << clientVars, health, now, fileData, fileContent, targetLang, language, response,
                    translatedText, gatewayCalls, unlinkCalls >>

\* A request without a file part arrives: req.file stays undefined.
UploadNoFile(r, tl) ==
    /\ Fresh(r)
    /\ route' = [route EXCEPT ![r] = "translate"]
    /\ reqBody' = [reqBody EXCEPT ![r] = [NoBody EXCEPT !.targetLanguage = tl]]
    /\ pc' = [pc EXCEPT ![r] = "t_handler"]
    /\ UNCHANGED << clientVars, health, now, disk, upload, reqFile, fileData, fileContent, targetLang, language, response,
                    translatedText, error, gatewayCalls, unlinkCalls, res >>

(***************************************************************************)
(* cleanupFile and the file extractor.                                     *)
(***************************************************************************)
\* fs.unlink(path): removes the file, or raises and leaves the disk as it is;
\* it always raises (ENOENT) when there is no such file.
Unlink(r, path) ==
    \E raised \in BOOLEAN :
        /\ path \notin DOMAIN disk => raised
        /\ disk' = IF raised THEN disk
                   ELSE [q \in DOMAIN disk \ {path} |-> disk[q]]
        /\ unlinkCalls' = [unlinkCalls EXCEPT ![r] =
                              Append(@, [path |-> path, raised |-> raised])]

\* cleanupFile(filePath): unlink when the path is truthy; an error of unlink is
\* logged and swallowed.
CleanupFile(r, path) ==
    IF path # "" THEN Unlink(r, path)
    ELSE UNCHANGED << disk, unlinkCalls >>

\* The .txt branch without the trim: only a file of no bytes is empty.
ExtractTxtNoTrim(data) ==
    IF Utf8Decode(data) = <<>>
    THEN [threw |-> TRUE, message |-> "Text file is empty", text |-> <<>>]
    ELSE [threw |-> FALSE, message |-> "", text |-> Utf8Decode(data)]

\* The .txt branch of processUploadedFile.
ExtractTxt(data) ==
    IF Trim(Utf8Decode(data)) = <<>>
    THEN [threw |-> TRUE, message |-> "Text file is empty", text |-> <<>>]
    ELSE [threw |-> FALSE, message |-> "", text |-> Utf8Decode(data)]

\* The .pdf branch of processUploadedFile, given the text pdf-parse extracted.
ExtractPdf(text) ==
    IF text = <<>> \/ Trim(text) = <<>>
    THEN [threw |-> TRUE, message |-> "PDF contains no readable text", text |-> <<>>]
    ELSE [threw |-> FALSE, message |-> "", text |-> text]

ReadError(code, path) ==
    IF code = "ENOENT"
    THEN "ENOENT: no such file or directory, open '" \o path \o "'"
    ELSE "EACCES: permission denied, open '" \o path \o "'"

(***************************************************************************)
(* POST /api/translate.                                                    *)
(***************************************************************************)
Respond(r, status, by, body) ==
    /\ res' = [res EXCEPT ![r] =
                  [sent |-> TRUE, status |-> status, by |-> by, body |-> body]]
    /\ pc' = [pc EXCEPT ![r] = "done"]

Throw(r, message) ==
    /\ error' = [error EXCEPT ![r] = message]
    /\ pc' = [pc EXCEPT ![r] = "t_catch"]

\* The handler without its check of req.file.
T_HandlerNoCheck(r) ==
    /\ pc[r] = "t_handler"
    /\ pc' = [pc EXCEPT ![r] = "t_readFile"]
    /\ UNCHANGED << clientVars, health, now, served, disk, route, upload, reqFile, reqBody, fileData,
                    fileContent, targetLang, language, response, translatedText,
                    error, gatewayCalls, unlinkCalls, res >>

\* The handler starts: without a file it answers 400 and returns; with one it
\* calls processUploadedFile, which awaits fs.readFile.
T_Handler(r) ==
    /\ pc[r] = "t_handler"
    /\ IF ~reqFile[r].present
       THEN Respond(r, 400, "translate", [error |-> "No file uploaded"])
       ELSE /\ pc' = [pc EXCEPT ![r] = "t_readFile"]
            /\ UNCHANGED res
    /\ UNCHANGED << clientVars, health, now, served, disk, route, upload, reqFile, reqBody, fileData, fileContent, targetLang, language,
                    response, translatedText, error, gatewayCalls, unlinkCalls >>

\* fs.readFile resolves or rejects; then the branch on the extension.
T_ReadFile(r) ==
    /\ pc[r] = "t_readFile"
    /\ LET path == reqFile[r].path
           ext == ToLowerCase(ExtName(reqFile[r].originalname))
       IN \/ /\ path \notin DOMAIN disk
             /\ Throw(r, ReadError("ENOENT", path))
             /\ UNCHANGED << fileData, fileContent >>
          \/ /\ path \in DOMAIN disk
             /\ Throw(r, ReadError("EACCES", path))
             /\ UNCHANGED << fileData, fileContent >>
          \/ /\ path \in DOMAIN disk
             /\ fileData' = [fileData EXCEPT ![r] = [read |-> TRUE, bytes |-> disk[path]]]
             /\ IF ext = <<".", "p", "d", "f">>
                THEN /\ pc' = [pc EXCEPT ![r] = "t_pdfParse"]
                     /\ UNCHANGED << fileContent, error >>
                ELSE IF ext = <<".", "t", "x", "t">>
                THEN IF ExtractTxt(disk[path]).threw
                     THEN /\ Throw(r, ExtractTxt(disk[path]).message)
                          /\ UNCHANGED fileContent
                     ELSE /\ fileContent' = [fileContent EXCEPT ![r] =
                                                ExtractTxt(disk[path]).text]
                          /\ pc' = [pc EXCEPT ![r] = "t_extracted"]
                          /\ UNCHANGED error
                ELSE /\ Throw(r, "Unsupported file type")
                     /\ UNCHANGED fileContent
    /\ UNCHANGED << clientVars, health, now, served, disk, route, upload, reqFile, reqBody, targetLang,
                    language, response, translatedText, gatewayCalls, unlinkCalls, res >>

\* pdfParse(data) resolves with a text or rejects.
T_PdfParse(r) ==
    /\ pc[r] = "t_pdfParse"
    /\ \/ /\ Throw(r, "Invalid PDF structure")
          /\ UNCHANGED fileContent
       \/ \E text \in PdfTexts :
             IF ExtractPdf(text).threw
             THEN /\ Throw(r, ExtractPdf(text).message)
                  /\ UNCHANGED fileContent
             ELSE /\ fileContent' = [fileContent EXCEPT ![r] = ExtractPdf(text).text]
                  /\ pc' = [pc EXCEPT ![r] = "t_extracted"]
                  /\ UNCHANGED error
    /\ UNCHANGED << clientVars, health, now, served, disk, route, upload, reqFile, reqBody, fileData,
                    targetLang, language, response, translatedText, gatewayCalls,
                    unlinkCalls, res >>

TranslatePrompt(lang) ==
    "Translate the following text to " \o ToStr(lang)
        \o " while maintaining the original meaning and tone:"

\* The target language without the default.
TargetLangNoDefault(body) == body.targetLanguage

\* req.body.targetLanguage || 'Chinese'
TargetLang(body) == OrElse(body.targetLanguage, Str("Chinese"))

GatewayCall(system, user, maxTokens) ==
    [system |-> system, user |-> user, model |-> "llama-3.3-70b-versatile",
     temperature |-> "0.7", max_tokens |-> maxTokens]

\* The target language is fixed and groq.chat.completions.create is called.
T_CallGateway(r) ==
    /\ pc[r] = "t_extracted"
    /\ targetLang' = [targetLang EXCEPT ![r] = TargetLang(reqBody[r])]
    /\ gatewayCalls' = [gatewayCalls EXCEPT ![r] =
          Append(@, GatewayCall(TranslatePrompt(TargetLang(reqBody[r])),
                                Substring(fileContent[r], TruncLimit), 2048))]
    /\ pc' = [pc EXCEPT ![r] = "t_awaitGateway"]
    /\ UNCHANGED << clientVars, health, now, served, disk, route, upload, reqFile, reqBody, fileData, fileContent, language, response,
                    translatedText, error, unlinkCalls, res >>

\* response.choices[0]?.message?.content || ''
TranslatedText(body) == OrElse(ContentOf(body).val, Str(""))

\* The gateway call resolves: the generated text is read from the body.
T_GatewayResolve(r) ==
    /\ pc[r] = "t_awaitGateway"
    /\ \E body \in GatewayBodies :
          /\ response' = [response EXCEPT ![r] = body]
          /\ IF ContentOf(body).threw
             THEN /\ Throw(r, TypeErrorChoices)
                  /\ UNCHANGED translatedText
             ELSE /\ translatedText' = [translatedText EXCEPT ![r] = TranslatedText(body)]
                  /\ pc' = [pc EXCEPT ![r] = "t_cleanup"]
                  /\ UNCHANGED error
    /\ UNCHANGED << clientVars, health, now, served, disk, route, upload, reqFile, reqBody, fileData, fileContent, targetLang, language,
                    gatewayCalls, unlinkCalls, res >>

\* A rejected gateway call that is made again.
T_GatewayRejectRetry(r) ==
    /\ pc[r] = "t_awaitGateway"
    /\ pc' = [pc EXCEPT ![r] = "t_extracted"]
    /\ UNCHANGED << clientVars, health, now, served, disk, route, upload, reqFile, reqBody, fileData,
                    fileContent, targetLang, language, response, translatedText, error,
                    gatewayCalls, unlinkCalls, res >>

\* The gateway call rejects.
T_GatewayReject(r) ==
    /\ pc[r] = "t_awaitGateway"
    /\ \E message \in GatewayErrors : Throw(r, message)
    /\ UNCHANGED << clientVars, health, now, served, disk, route, upload, reqFile, reqBody, fileData, fileContent, targetLang, language,
                    response, translatedText, gatewayCalls, unlinkCalls, res >>

\* A success path that answers without the cleanup.
T_CleanupSkipped(r) ==
    /\ pc[r] = "t_cleanup"
    /\ pc' = [pc EXCEPT ![r] = "t_respond"]
    /\ UNCHANGED << clientVars, health, now, served, disk, route, upload, reqFile, reqBody, fileData,
                    fileContent, targetLang, language, response, translatedText, error,
                    gatewayCalls, unlinkCalls, res >>

\* await cleanupFile(req.file.path) on the success path.
T_Cleanup(r) ==
    /\ pc[r] = "t_cleanup"
    /\ CleanupFile(r, reqFile[r].path)
    /\ pc' = [pc EXCEPT ![r] = "t_respond"]
    /\ UNCHANGED << clientVars, health, now, served, route, upload, reqFile, reqBody, fileData, fileContent, targetLang, language,
                    response, translatedText, error, gatewayCalls, res >>

\* A success body that returns the whole text.
SuccessBodyFullText(content, translated, lang) ==
    [success |-> TRUE, originalText |-> content,
     translatedText |-> translated, language |-> lang,
     originalLength |-> Length(content)]

SuccessBody(content, translated, lang) ==
    [success |-> TRUE, originalText |-> Substring(content, TruncLimit),
     translatedText |-> translated, language |-> lang,
     originalLength |-> Length(content)]

\* res.json({success: true, ...}) sends the success response.
T_Respond(r) ==
    /\ pc[r] = "t_respond"
    /\ Respond(r, 200, "translate",
               SuccessBody(fileContent[r], translatedText[r], targetLang[r]))
    /\ UNCHANGED << clientVars, health, now, served, disk, route, upload, reqFile, reqBody, fileData, fileContent, targetLang, language,
                    response, translatedText, error, gatewayCalls, unlinkCalls >>

SendError == "res.json failed"

\* res.json raises instead (the response object refuses the write): control
\* enters the catch block after the success-path cleanup has run.
T_RespondThrows(r) ==
    /\ pc[r] = "t_respond"
    /\ Throw(r, SendError)
    /\ UNCHANGED << clientVars, health, now, served, disk, route, upload, reqFile, reqBody, fileData, fileContent, targetLang, language,
                    response, translatedText, gatewayCalls, unlinkCalls, res >>

\* A catch block that forgets the cleanup.
T_CatchNoCleanup(r) ==
    /\ pc[r] = "t_catch"
    /\ pc' = [pc EXCEPT ![r] = "t_fail"]
    /\ UNCHANGED << clientVars, health, now, served, disk, route, upload, reqFile, reqBody, fileData,
                    fileContent, targetLang, language, response, translatedText,
                    error, gatewayCalls, unlinkCalls, res >>

\* A catch block in which an error of the cleanup replaces the primary error.
T_CatchMasking(r) ==
    /\ pc[r] = "t_catch"
    /\ CleanupFile(r, reqFile[r].path)
    /\ error' = IF unlinkCalls'[r][Len(unlinkCalls'[r])].raised
                THEN [error EXCEPT ![r] = "EPERM: operation not permitted, unlink"]
                ELSE error
    /\ pc' = [pc EXCEPT ![r] = "t_fail"]
    /\ UNCHANGED << clientVars, health, now, served, route, upload, reqFile, reqBody, fileData,
                    fileContent, targetLang, language, response, translatedText,
                    gatewayCalls, res >>

\* catch (error): the file is cleaned up when there is one.
T_Catch(r) ==
    /\ pc[r] = "t_catch"
    /\ IF reqFile[r].present
       THEN CleanupFile(r, reqFile[r].path)
       ELSE UNCHANGED << disk, unlinkCalls >>
    /\ pc' = [pc EXCEPT ![r] = "t_fail"]
    /\ UNCHANGED << clientVars, health, now, served, route, upload, reqFile, reqBody, fileData, fileContent, targetLang, language,
                    response, translatedText, error, gatewayCalls, res >>

Suggestion == "Please ensure you upload a valid PDF or text file with readable content"

\* An envelope that hides the underlying message.
FailureBodyGeneric(message) ==
    [error |-> "Translation failed", message |-> "Internal error",
     suggestion |-> Suggestion]

FailureBody(message) ==
    [error |-> "Translation failed", message |-> message, suggestion |-> Suggestion]

\* A catch block that ends without sending anything.
T_FailSilent(r) ==
    /\ pc[r] = "t_fail"
    /\ pc' = [pc EXCEPT ![r] = "done"]
    /\ UNCHANGED << clientVars, health, now, served, disk, route, upload, reqFile, reqBody, fileData,
                    fileContent, targetLang, language, response, translatedText, error,
                    gatewayCalls, unlinkCalls, res >>

\* res.status(500).json({...}) sends the failure envelope.
T_Fail(r) ==
    /\ pc[r] = "t_fail"
    /\ Respond(r, 500, "translate", FailureBody(error[r]))
    /\ UNCHANGED << clientVars, health, now, served, disk, route, upload, reqFile, reqBody, fileData, fileContent, targetLang, language,
                    response, translatedText, error, gatewayCalls, unlinkCalls >>

(***************************************************************************)
(* POST /api/chat.                                                         *)
(***************************************************************************)
\* languagePrompts.  The prompts that are not ASCII are transliterated.
LanguagePrompts ==
    [ Chinese |-> "yong zhongwen huida, baochi zhuanye qie ziran de yuqi",
      English |-> "Respond in English, maintaining a professional and natural tone",
      Spanish |-> "Responde en espanol, manteniendo un tono profesional y natural",
      French |-> "Repondez en francais, en maintenant un ton professionnel et naturel",
      German |-> "Antworten Sie auf Deutsch und behalten Sie einen professionellen und natuerlichen Ton bei",
      Japanese |-> "nihongo de kaitou shi, senmonteki de shizen na kuchou wo tamotsu",
      Korean |-> "hangugeo ro dapbyeon hago jeonmunjeogigo jayeonseureoun eojo reul yujihaseyo",
      Russian |-> "Otvechayte na russkom yazyke, sokhranyaya professionalnyy i estestvennyy ton" ]

\* Members every object literal inherits from Object.prototype.
PrototypeMethods ==
    { "constructor", "toString", "toLocaleString", "valueOf", "hasOwnProperty",
      "isPrototypeOf", "propertyIsEnumerable" }

\* languagePrompts[key]: an own property, else what the prototype chain holds,
\* else undefined.
PromptFor(key) ==
    IF ToStr(key) \in DOMAIN LanguagePrompts THEN Str(LanguagePrompts[ToStr(key)])
    ELSE IF ToStr(key) \in PrototypeMethods THEN Fn(ToStr(key))
    ELSE IF ToStr(key) = "__proto__" THEN Obj("Object.prototype")
    ELSE Undefined

\* languagePrompts[language] || languagePrompts.Chinese
SystemPrompt(lang) == OrElse(PromptFor(lang), PromptFor(Str("Chinese")))

\* const { message, language = 'Chinese' } = req.body: the default applies to
\* undefined only.
LanguageOf(body) ==
    IF body.language = Undefined THEN Str("Chinese") ELSE body.language

\* The validation without the typeof test.
InvalidMessageFalsyOnly(message) == ~Truthy(message)

\* !message || typeof message !== 'string'
InvalidMessage(message) == (~Truthy(message)) \/ message.t # "string"

ChatMessages ==
    { Undefined, Null, Str(""), Str("hi"), Num("0"), Num("42"), Bool("true"), Obj("{}") }

ChatLanguages ==
    { Undefined, Null, Str(""), Str("Klingon"), Str("chinese"), Str("constructor"),
      Str("__proto__") } \cup { Str(l) : l \in DOMAIN LanguagePrompts }

\* A chat request arrives with its parsed JSON body.
ChatArrive(r, message, lang) ==
    /\ Fresh(r)
    /\ route' = [route EXCEPT ![r] = "chat"]
    /\ reqBody' = [reqBody EXCEPT ![r] =
                      [NoBody EXCEPT !.message = message, !.language = lang]]
    /\ pc' = [pc EXCEPT ![r] = "c_handler"]
    /\ UNCHANGED << clientVars, health, now, disk, upload, reqFile, fileData, fileContent, targetLang, language, response,
                    translatedText, error, gatewayCalls, unlinkCalls, res >>

\* The handler validates the message, resolves the system prompt and calls
\* the gateway.
C_Handler(r) ==
    /\ pc[r] = "c_handler"
    /\ language' = [language EXCEPT ![r] = LanguageOf(reqBody[r])]
    /\ IF InvalidMessage(reqBody[r].message)
       THEN /\ Respond(r, 400, "chat", [error |-> "Valid message is required"])
            /\ UNCHANGED gatewayCalls
       ELSE /\ gatewayCalls' = [gatewayCalls EXCEPT ![r] =
                  Append(@, GatewayCall(SystemPrompt(LanguageOf(reqBody[r])),
                                        reqBody[r].message, 1024))]
            /\ pc' = [pc EXCEPT ![r] = "c_awaitGateway"]
            /\ UNCHANGED res
    /\ UNCHANGED << clientVars, health, now, served, disk, route, upload, reqFile, reqBody, fileData, fileContent, targetLang,
                    response, translatedText, error, unlinkCalls >>

\* The reply text with the fallback of the translate handler.
ResponseTextEmptyFallback(body) == OrElse(ContentOf(body).val, Str(""))

\* response.choices[0]?.message?.content || 'No response'
ResponseText(body) == OrElse(ContentOf(body).val, Str("No response"))

\* The chat failure answered with the envelope of the translate handler.
ChatFailureAsTranslate(message) == FailureBody(message)

ChatFailure(message) == [error |-> "Chat failed", message |-> message]

\* The gateway call resolves: the reply is sent, or reading the body raises and
\* the catch block answers.
C_GatewayResolve(r) ==
    /\ pc[r] = "c_awaitGateway"
    /\ \E body \in GatewayBodies :
          /\ response' = [response EXCEPT ![r] = body]
          /\ IF ContentOf(body).threw
             THEN /\ error' = [error EXCEPT ![r] = TypeErrorChoices]
                  /\ Respond(r, 500, "chat", ChatFailure(TypeErrorChoices))
             ELSE /\ Respond(r, 200, "chat",
                             [response |-> ResponseText(body), language |-> language[r]])
                  /\ UNCHANGED error
    /\ UNCHANGED << clientVars, health, now, served, disk, route, upload, reqFile, reqBody, fileData, fileContent, targetLang,
                    language, translatedText, gatewayCalls, unlinkCalls >>

\* The gateway call rejects: the catch block answers.
C_GatewayReject(r) ==
    /\ pc[r] = "c_awaitGateway"
    /\ \E message \in GatewayErrors :
          /\ error' = [error EXCEPT ![r] = message]
          /\ Respond(r, 500, "chat", ChatFailure(message))
    /\ UNCHANGED << clientVars, health, now, served, disk, route, upload, reqFile, reqBody, fileData, fileContent, targetLang,
                    language, response, translatedText, gatewayCalls, unlinkCalls >>

(***************************************************************************)
(* The server.                                                             *)
(***************************************************************************)
\* The connection of an answered request goes away; its slot is free again.
\* What the request left on disk stays.
Close(r) ==
    /\ pc[r] = "done"
    /\ pc' = [pc EXCEPT ![r] = "idle"]
    /\ route' = [route EXCEPT ![r] = ""]
    /\ upload' = [upload EXCEPT ![r] = NoPart]
    /\ reqFile' = [reqFile EXCEPT ![r] = NoFile]
    /\ reqBody' = [reqBody EXCEPT ![r] = NoBody]
    /\ fileData' = [fileData EXCEPT ![r] = NoData]
    /\ fileContent' = [fileContent EXCEPT ![r] = <<>>]
    /\ targetLang' = [targetLang EXCEPT ![r] = Undefined]
    /\ language' = [language EXCEPT ![r] = Undefined]
    /\ response' = [response EXCEPT ![r] = NoCompletion]
    /\ translatedText' = [translatedText EXCEPT ![r] = Undefined]
    /\ error' = [error EXCEPT ![r] = ""]
    /\ gatewayCalls' = [gatewayCalls EXCEPT ![r] = <<>>]
    /\ unlinkCalls' = [unlinkCalls EXCEPT ![r] = <<>>]
    /\ res' = [res EXCEPT ![r] = NoRes]
    /\ UNCHANGED << clientVars, health, now, served, disk >>

\* No request is being handled.
Quiet == \A q \in Req : pc[q] = "idle"

\* A health check that reports the failures of other requests.
HealthDegraded ==
    /\ health' = IF \E q \in Req : res[q].sent /\ res[q].status = 500
                 THEN [sent |-> TRUE, status |-> 503,
                       body |-> [status |-> "degraded",
                                 services |-> [fileTranslation |-> "active", chat |-> "active"],
                                 timestamp |-> now]]
                 ELSE [sent |-> TRUE, status |-> 200,
                       body |-> [status |-> "healthy",
                                 services |-> [fileTranslation |-> "active", chat |-> "active"],
                                 timestamp |-> now]]
    /\ UNCHANGED << clientVars, now, served, disk, pc, route, upload, reqFile, reqBody,
                    fileData, fileContent, targetLang, language, response, translatedText,
                    error, gatewayCalls, unlinkCalls, res >>

\* GET /health: answered in one synchronous step, whatever the other requests
\* are doing; the body is built from literals and the clock.
Health ==
    /\ health' = [sent |-> TRUE, status |-> 200,
                  body |-> [status |-> "healthy",
                            services |-> [fileTranslation |-> "active", chat |-> "active"],
                            timestamp |-> now]]
    /\ UNCHANGED << clientVars, now, served, disk, pc, route, upload, reqFile, reqBody,
                    fileData, fileContent, targetLang, language, response, translatedText,
                    error, gatewayCalls, unlinkCalls, res >>

\* A new request is accepted: requests are served one at a time, and
\* MaxRequests of them in a run.
Accept ==
    /\ Quiet
    /\ served < MaxRequests
    /\ served' = served + 1

TranslateArrive(r) ==
    /\ Accept
    /\ \E part \in Parts, tl \in TargetLanguages :
          Upload(r, part.originalname, part.data, tl)

TranslateArriveNoFile(r) ==
    /\ Accept
    /\ \E tl \in TargetLanguages : UploadNoFile(r, tl)

ChatRequest(r) ==
    /\ Accept
    /\ \E message \in ChatMessages, lang \in ChatLanguages : ChatArrive(r, message, lang)

Next ==
    \/ Quiet /\ Tick
    \/ Health
    \/ \E r \in Req :
          \/ TranslateArrive(r)
          \/ TranslateArriveNoFile(r)
          \/ T_Handler(r)
          \/ T_ReadFile(r)
          \/ T_PdfParse(r)
          \/ T_CallGateway(r)
          \/ T_GatewayResolve(r)
          \/ T_GatewayReject(r)
          \/ T_Cleanup(r)
          \/ T_Respond(r)
          \/ T_RespondThrows(r)
          \/ T_Catch(r)
          \/ T_Fail(r)
          \/ ChatRequest(r)
          \/ C_Handler(r)
          \/ C_GatewayResolve(r)
          \/ C_GatewayReject(r)
          \/ Close(r)

Spec == Init /\ [][Next]_vars

(***************************************************************************)
(* The browser application <App/>: its handlers.  A handler reads the      *)
(* state of the render it was created in; the state updates of one handler *)
(* run are applied together, the last update of a state winning, and the   *)
(* save effects run after the render.  A handler that awaits keeps the     *)
(* values of its render for its continuation.  Presentation state (menus,  *)
(* dialogs, focus) is left out.                                            *)
(***************************************************************************)
ClientTick ==
    /\ clientNow < MaxClock
    /\ clientNow' = clientNow + 1
    /\ UNCHANGED << deleted, created, issued, mounted, queued, chats, currentChat, pinnedChats,
                    isLoading, isUploading, call, uploadData, storage >>
    /\ UNCHANGED serverVars

\* The render after a handler ran, followed by the two save effects, each of
\* which runs when its state changed.
Render(newChats, newCurrent, newPinned) ==
    /\ chats' = newChats
    /\ currentChat' = newCurrent
    /\ pinnedChats' = newPinned
    /\ storage' = [chats |-> IF newChats = chats THEN storage.chats
                             ELSE StringifyChats(newChats),
                   pinned |-> IF newPinned = pinnedChats THEN storage.pinned
                              ELSE StringifyIds(newPinned)]

\* list.map(chat => chat.id === id ? replacement : chat)
ReplaceChat(list, id, replacement) ==
    [i \in 1..Len(list) |-> IF list[i].id = id THEN replacement ELSE list[i]]

\* list.filter(chat => chat.id !== id)
WithoutChat(list, id) == SelectSeq(list, LAMBDA chat : chat.id # id)

\* ids.filter(x => x !== id) and ids.includes(id)
WithoutId(ids, id) == SelectSeq(ids, LAMBDA x : x # id)
Includes(ids, id) == \E i \in 1..Len(ids) : ids[i] = id

\* The application is mounted and the user can act on it.
Ready == mounted = "mounted"

createNewChat ==
    /\ Ready
    /\ created < MaxChats
    /\ created' = created + 1
    /\ deleted' = deleted \ {ToString(clientNow)}
    /\ LET newChat == NewChat(ToString(clientNow),
                              Lit("New Conversation ") \o Lit(ToString(Len(chats) + 1)),
                              <<>>, clientNow, "English")
       IN Render(<<newChat>> \o chats, newChat, pinnedChats)
    /\ UNCHANGED << clientNow, issued, mounted, queued, isLoading, isUploading, call,
                    uploadData >>
    /\ UNCHANGED serverVars

copyChat(i) ==
    /\ Ready
    /\ i \in 1..Len(chats)
    /\ created < MaxChats
    /\ created' = created + 1
    /\ deleted' = deleted \ {ToString(clientNow)}
    /\ \E rnd \in [1..Len(chats[i].messages) -> 0..MaxRand] :
          LET newChat ==
                 NewChat(ToString(clientNow), chats[i].title \o Lit(" (Copy)"),
                         [k \in 1..Len(chats[i].messages) |->
                             [chats[i].messages[k] EXCEPT
                                 !.id = ToString(clientNow) \o "0." \o ToString(rnd[k])]],
                         clientNow, chats[i].language)
          IN Render(<<newChat>> \o chats, newChat, pinnedChats)
    /\ UNCHANGED << clientNow, issued, mounted, queued, isLoading, isUploading, call,
                    uploadData >>
    /\ UNCHANGED serverVars

\* A click on a conversation of the list selects it.
SelectChat(i) ==
    /\ Ready
    /\ i \in 1..Len(chats)
    /\ Render(chats, chats[i], pinnedChats)
    /\ UNCHANGED << deleted, clientNow, created, issued, mounted, queued, isLoading, isUploading,
                    call, uploadData >>
    /\ UNCHANGED serverVars

togglePin(i) ==
    /\ Ready
    /\ i \in 1..Len(chats)
    /\ LET chatId == chats[i].id
       IN IF Includes(pinnedChats, chatId)
          THEN Render(chats, currentChat, WithoutId(pinnedChats, chatId))
          ELSE Render(chats, currentChat, Append(pinnedChats, chatId))
    /\ UNCHANGED << deleted, clientNow, created, issued, mounted, queued, isLoading, isUploading,
                    call, uploadData >>
    /\ UNCHANGED serverVars

\* A delete that leaves the pinned list as it is.
DeleteChatKeepsPin(i) ==
    /\ Ready
    /\ i \in 1..Len(chats)
    /\ deleted' = deleted \cup {chats[i].id}
    /\ LET chatId == chats[i].id
       IN Render(WithoutChat(chats, chatId),
                 IF currentChat # Null /\ currentChat.id = chatId THEN Null
                 ELSE currentChat,
                 pinnedChats)
    /\ UNCHANGED << clientNow, created, issued, mounted, queued, isLoading, isUploading,
                    call, uploadData >>
    /\ UNCHANGED serverVars

\* deleteChat(chat.id), called when the user confirms the delete dialog.
deleteChat(i) ==
    /\ Ready
    /\ i \in 1..Len(chats)
    /\ deleted' = deleted \cup {chats[i].id}
    /\ LET chatId == chats[i].id
       IN Render(WithoutChat(chats, chatId),
                 IF currentChat # Null /\ currentChat.id = chatId THEN Null
                 ELSE currentChat,
                 IF Includes(pinnedChats, chatId) THEN WithoutId(pinnedChats, chatId)
                 ELSE pinnedChats)
    /\ UNCHANGED << clientNow, created, issued, mounted, queued, isLoading, isUploading,
                    call, uploadData >>
    /\ UNCHANGED serverVars

\* 'Clear all conversations', confirmed.
ClearAll ==
    /\ Ready
    /\ Render(<<>>, Null, <<>>)
    /\ UNCHANGED << deleted, clientNow, created, issued, mounted, queued, isLoading, isUploading,
                    call, uploadData >>
    /\ UNCHANGED serverVars

\* What the user types: a short message, one longer than a title, and blanks.
ClientInputs ==
    { <<Run("h", 1), Run("i", 1)>>, <<Run("a", 31)>>, <<Run(" ", 2)>> }

\* The values of the language menu.
languages ==
    { "Chinese", "English", "Spanish", "French", "German", "Japanese", "Korean",
      "Russian", "Arabic", "Portuguese", "Italian" }

\* The languages the user picks in a run.
PickedLanguages == { l \in languages : l \in {"French", "Arabic"} }

\* The names of the files the user uploads.
ClientFiles == { "b.txt" }

\* currentChat.language || 'English'
LanguageOrEnglish(chat) == IF chat.language = "" THEN "English" ELSE chat.language

\* title.startsWith('New Conversation')
StartsWithNewConversation(title) ==
    title # <<>> /\ title[1].c = "New Conversation "

\* The title sendMessage derives from the first user message.
TitleOf(content) ==
    IF Length(content) > 30 THEN Take(content, 30) \o Lit("...") ELSE content

handleLanguageChange(newLanguage) ==
    /\ Ready
    /\ currentChat # Null
    /\ LET updatedChat == [currentChat EXCEPT !.language = newLanguage]
       IN Render(ReplaceChat(chats, currentChat.id, updatedChat), updatedChat, pinnedChats)
    /\ UNCHANGED << deleted, clientNow, created, issued, mounted, queued, isLoading, isUploading,
                    call, uploadData >>
    /\ UNCHANGED serverVars

\* sendMessage up to its first await: the user message is appended and the
\* request is sent.  The input is disabled while a request is in flight.
sendMessage(text) ==
    /\ Ready
    /\ ~isLoading /\ ~isUploading
    /\ Trim(text) # <<>>
    /\ currentChat # Null
    /\ issued < MaxRequests
    /\ issued' = issued + 1
    /\ LET userMessage == NewMessage(ToString(clientNow), text, "user", clientNow)
           updatedChat == [currentChat EXCEPT !.messages = Append(@, userMessage)]
       IN /\ Render(ReplaceChat(chats, currentChat.id, updatedChat), updatedChat,
                    pinnedChats)
          /\ call' = [active |-> TRUE, kind |-> "chat", chats |-> chats,
                      currentChat |-> currentChat, updatedChat |-> updatedChat,
                      userMessage |-> userMessage,
                      request |-> [message |-> text,
                                   language |-> LanguageOrEnglish(currentChat),
                                   modelType |-> currentChat.modelType, file |-> ""]]
    /\ isLoading' = TRUE
    /\ UNCHANGED << deleted, clientNow, created, mounted, queued, isUploading, uploadData >>
    /\ UNCHANGED serverVars

\* The replies of POST /api/chat the client reads data.response from.
ChatReplies == { Str("ok") }

\* The state updates of the continuation: setChats and setCurrentChat with the
\* updated conversation, then those of renameChat when the exchange was the
\* first one; renameChat is the function of the render the handler ran in.
AfterExchange(closure, updatedChat, newTitle) ==
    IF Len(updatedChat.messages) = 2 /\ StartsWithNewConversation(updatedChat.title)
    THEN Render([i \in 1..Len(closure.chats) |->
                    IF closure.chats[i].id = updatedChat.id
                    THEN [closure.chats[i] EXCEPT !.title = newTitle]
                    ELSE closure.chats[i]],
                IF closure.currentChat # Null /\ closure.currentChat.id = updatedChat.id
                THEN [closure.currentChat EXCEPT !.title = newTitle]
                ELSE updatedChat,
                pinnedChats)
    ELSE Render(ReplaceChat(closure.chats, closure.currentChat.id, updatedChat),
                updatedChat, pinnedChats)

\* The fetch of sendMessage resolves with a 2xx reply: the bot message is
\* appended and the conversation is renamed after its first exchange.
ChatReply ==
    /\ call.active /\ call.kind = "chat"
    /\ \E reply \in ChatReplies :
          LET botMessage == NewMessage(ToString(clientNow + 1), Lit(reply.v), "bot",
                                       clientNow)
              updatedChat == [call.updatedChat EXCEPT !.messages = Append(@, botMessage)]
          IN AfterExchange(call, updatedChat, TitleOf(call.userMessage.content))
    /\ isLoading' = FALSE
    /\ call' = NoCall
    /\ UNCHANGED << deleted, clientNow, created, issued, mounted, queued, isUploading, uploadData >>
    /\ UNCHANGED serverVars

\* The fetch rejects or the reply is not 2xx: the catch block appends the
\* apology.
ChatError ==
    /\ call.active /\ call.kind = "chat"
    /\ LET errorMessage ==
              NewMessage(ToString(clientNow + 2),
                         Lit("Sorry, something went wrong. Please try again or refresh the page."),
                         "bot", clientNow)
           updatedChat == [call.updatedChat EXCEPT !.messages = Append(@, errorMessage)]
       IN Render(ReplaceChat(call.chats, call.currentChat.id, updatedChat), updatedChat,
                 pinnedChats)
    /\ isLoading' = FALSE
    /\ call' = NoCall
    /\ UNCHANGED << deleted, clientNow, created, issued, mounted, queued, isUploading, uploadData >>
    /\ UNCHANGED serverVars

\* handleFileUpload up to its first await: the form is sent.  The file input
\* is disabled while a request is in flight.
handleFileUpload(file) ==
    /\ Ready
    /\ ~isLoading /\ ~isUploading
    /\ currentChat # Null
    /\ issued < MaxRequests
    /\ issued' = issued + 1
    /\ isUploading' = TRUE
    /\ call' = [active |-> TRUE, kind |-> "upload", chats |-> chats,
                currentChat |-> currentChat, updatedChat |-> currentChat,
                userMessage |-> Null,
                request |-> [message |-> <<>>, language |-> LanguageOrEnglish(currentChat),
                             modelType |-> currentChat.modelType, file |-> file]]
    /\ UNCHANGED << deleted, clientNow, created, mounted, queued, chats, currentChat, pinnedChats,
                    isLoading, uploadData, storage >>
    /\ UNCHANGED serverVars

\* The success bodies of POST /api/translate, as the server builds them.
UploadBodies(lang) ==
    { SuccessBody(content, Str("ok"), Str(lang)) :
         content \in { <<Run("h", 1)>>, <<Run("a", TruncLimit), Run("b", 1)>> } }

\* `${uploadData.contentPreview}`: the field, or 'undefined' when the body has
\* no such field.
ContentPreview(body) ==
    IF "contentPreview" \in DOMAIN body THEN body.contentPreview ELSE Lit("undefined")

\* The content of the user message the upload continuation builds.
UploadUserContent(file, body) ==
    Lit("Uploaded file: ") \o Lit(file) \o Lit("\n\n") \o ContentPreview(body)

\* The fetch of handleFileUpload resolves with a 2xx reply.
UploadReply ==
    /\ call.active /\ call.kind = "upload"
    /\ \E body \in UploadBodies(call.request.language) :
          LET file == call.request.file
              userMessage ==
                 [id |-> ToString(clientNow), content |-> UploadUserContent(file, body),
                  sender |-> "user", timestamp |-> NewDate(clientNow),
                  fileInfo |-> [name |-> file, size |-> Length(body.originalText),
                                type |-> "text/plain"]]
              botMessage ==
                 NewMessage(ToString(clientNow + 1),
                            Lit("Translation (") \o Lit(call.currentChat.language)
                               \o Lit("):\n\n") \o Lit(body.translatedText.v),
                            "bot", clientNow)
              updatedChat ==
                 [call.currentChat EXCEPT
                     !.messages = Append(Append(@, userMessage), botMessage)]
          IN /\ uploadData' = [read |-> TRUE, body |-> body]
             /\ AfterExchange(call, updatedChat, Lit("File: ") \o Lit(file))
    /\ isUploading' = FALSE
    /\ call' = NoCall
    /\ UNCHANGED << deleted, clientNow, created, issued, mounted, queued, isLoading >>
    /\ UNCHANGED serverVars

\* The fetch rejects or the reply is not 2xx.
UploadError ==
    /\ call.active /\ call.kind = "upload"
    /\ LET errorMessage ==
              NewMessage(ToString(clientNow + 2),
                         Lit("Error processing file: ") \o Lit("File upload failed"),
                         "bot", clientNow)
           updatedChat == [call.currentChat EXCEPT !.messages = Append(@, errorMessage)]
       IN Render(ReplaceChat(call.chats, call.currentChat.id, updatedChat), updatedChat,
                 pinnedChats)
    /\ isUploading' = FALSE
    /\ call' = NoCall
    /\ UNCHANGED << deleted, clientNow, created, issued, mounted, queued, isLoading, uploadData >>
    /\ UNCHANGED serverVars

(***************************************************************************)
(* The mount of <App/>: the load effect and the two save effects run after *)
(* the first render; under React.StrictMode a development build runs them  *)
(* a second time; the queued state updates are applied in the next render. *)
(***************************************************************************)
\* The load effect: setChats and setPinnedChats with what localStorage holds.
LoadEffect(queue) ==
    [chats |-> IF storage.chats.present
               THEN Append(queue.chats, ParseChats(storage.chats)) ELSE queue.chats,
     pinned |-> IF storage.pinned.present
                THEN Append(queue.pinned, ParseIds(storage.pinned)) ELSE queue.pinned]

\* The effects of the first render: load, then save the state of that render.
MountEffects ==
    /\ mounted = "rendered"
    /\ queued' = LoadEffect([chats |-> <<>>, pinned |-> <<>>])
    /\ storage' = [chats |-> StringifyChats(chats), pinned |-> StringifyIds(pinnedChats)]
    /\ mounted' = "effects"
    /\ UNCHANGED << deleted, clientNow, created, issued, chats, currentChat, pinnedChats,
                    isLoading, isUploading, call, uploadData >>
    /\ UNCHANGED serverVars

\* React.StrictMode in a development build: the effects run once more, before
\* the queued updates are rendered.
StrictEffects ==
    /\ mounted = "effects"
    /\ queued' = LoadEffect(queued)
    /\ storage' = [chats |-> StringifyChats(chats), pinned |-> StringifyIds(pinnedChats)]
    /\ mounted' = "strictEffects"
    /\ UNCHANGED << deleted, clientNow, created, issued, chats, currentChat, pinnedChats,
                    isLoading, isUploading, call, uploadData >>
    /\ UNCHANGED serverVars

\* The render of the queued updates, the last one of each state winning, and
\* the save effects of that render.
MountCommit ==
    /\ mounted \in {"effects", "strictEffects"}
    /\ LET newChats == IF queued.chats = <<>> THEN chats
                       ELSE queued.chats[Len(queued.chats)]
           newPinned == IF queued.pinned = <<>> THEN pinnedChats
                        ELSE queued.pinned[Len(queued.pinned)]
       IN /\ chats' = newChats
          /\ pinnedChats' = newPinned
          /\ storage' = [chats |-> IF queued.chats = <<>> THEN storage.chats
                                   ELSE StringifyChats(newChats),
                         pinned |-> IF queued.pinned = <<>> THEN storage.pinned
                                    ELSE StringifyIds(newPinned)]
    /\ queued' = [chats |-> <<>>, pinned |-> <<>>]
    /\ mounted' = "mounted"
    /\ UNCHANGED << deleted, clientNow, created, issued, currentChat, isLoading, isUploading,
                    call, uploadData >>
    /\ UNCHANGED serverVars

\* The handlers that change the conversation list without a request.
ListStep ==
    \/ createNewChat
    \/ ClearAll
    \/ \E i \in 1..MaxChats : copyChat(i) \/ SelectChat(i) \/ togglePin(i) \/ deleteChat(i)
    \/ \E newLanguage \in PickedLanguages : handleLanguageChange(newLanguage)

\* The mount.
MountStep == MountEffects \/ StrictEffects \/ MountCommit

NextList == ClientTick \/ MountStep \/ ListStep

NextClient ==
    \/ ClientTick
    \/ MountStep
    \/ ListStep
    \/ \E text \in ClientInputs : sendMessage(text)
    \/ ChatReply
    \/ ChatError
    \/ \E file \in ClientFiles : handleFileUpload(file)
    \/ UploadReply
    \/ UploadError

\* The list handlers after a first visit.
SpecList == Init /\ [][NextList]_vars

\* The whole client after a first visit.
SpecClient == Init /\ [][NextClient]_vars

\* What an earlier visit left in localStorage.
StoredChat(id, ms) ==
    NewChat(id, <<Run("h", 1), Run("i", 1)>>,
            << NewMessage(id, <<Run("h", 1), Run("i", 1)>>, "user", ms),
               NewMessage(ToString(ms + 1), Lit("ok"), "bot", ms) >>,
            ms, "English")

StoredLists ==
    { <<>>, <<StoredChat("0", 0)>>, <<StoredChat("1", 1), StoredChat("0", 0)>> }

\* The application starts in a browser that holds the lists of an earlier visit.
InitStored ==
    /\ ServerInit
    /\ \E list \in StoredLists, pins \in {<<>>, <<"0">>} :
          /\ \A k \in 1..Len(pins) : \E i \in 1..Len(list) : list[i].id = pins[k]
          /\ ClientStart([chats |-> StringifyChats(list), pinned |-> StringifyIds(pins)])

\* The list handlers on a later visit.
SpecMount == InitStored /\ [][NextList]_vars

(***************************************************************************)
(* Requests handled at the same time: the event loop interleaves the steps *)
(* of two handlers at their awaits, and the clock runs on its own.         *)
(***************************************************************************)
\* The two requests in flight together.
Pair == { r \in Req : r <= 2 }

\* The uploads of the concurrent requests: text files of different content.
ConcParts ==
    { Part(<<"b", ".", "t", "x", "t">>, <<Run("h", 1)>>),
      Part(<<"b", ".", "t", "x", "t">>, <<Run("w", 2)>>) }

\* A translate request arrives while another may be in progress.
ConcTranslateArrive(r) ==
    /\ r \in Pair
    /\ served' = served + 1
    /\ \E part \in ConcParts : Upload(r, part.originalname, part.data, Str("French"))

\* A chat request arrives while another may be in progress.
ConcChatRequest(r) ==
    /\ r \in Pair
    /\ served' = served + 1
    /\ ChatArrive(r, Str("hi"), Undefined)

NextConc ==
    \/ Tick
    \/ \E r \in Req :
          \/ ConcTranslateArrive(r)
          \/ ConcChatRequest(r)
          \/ T_Handler(r)
          \/ T_ReadFile(r)
          \/ T_CallGateway(r)
          \/ T_GatewayResolve(r)
          \/ T_GatewayReject(r)
          \/ T_Cleanup(r)
          \/ T_Respond(r)
          \/ T_Catch(r)
          \/ T_Fail(r)
          \/ C_Handler(r)
          \/ C_GatewayResolve(r)
          \/ C_GatewayReject(r)

SpecConc == Init /\ [][NextConc]_vars

\* A step of the handler of request r: a continuation the event loop runs, or
\* the return or raise of the call the handler awaits.
HandlerStep(r) ==
    \/ T_Handler(r) \/ T_ReadFile(r) \/ T_CallGateway(r)
    \/ T_GatewayResolve(r) \/ T_GatewayReject(r)
    \/ T_Cleanup(r) \/ T_Respond(r) \/ T_Catch(r) \/ T_Fail(r)
    \/ C_Handler(r) \/ C_GatewayResolve(r) \/ C_GatewayReject(r)

\* Requests arriving and being handled within one tick of the clock.
NextLive ==
    \E r \in Req :
        \/ ConcTranslateArrive(r)
        \/ ConcChatRequest(r)
        \/ HandlerStep(r)

\* The event loop runs every continuation that is ready, and every call to the
\* gateway or the file system eventually returns or raises.
FairSpec == Init /\ [][NextLive]_vars /\ \A r \in Req : WF_vars(HandlerStep(r))

(***************************************************************************)
(* Properties.                                                             *)
(***************************************************************************)
\* Request r is a translate request whose handler runs with an uploaded file.
HasFile(r) == route[r] = "translate" /\ reqFile[r].present

\* The completion carries a generated text that is not empty.
HasText(body) ==
    /\ body.hasChoices
    /\ body.choices # <<>>
    /\ body.choices[1].hasMessage
    /\ body.choices[1].hasContent
    /\ body.choices[1].content # ""

\* The extension of a file name is neither .pdf nor .txt, whatever its case.
UnsupportedName(name) ==
    ToLowerCase(ExtName(name)) \notin { <<".", "p", "d", "f">>, <<".", "t", "x", "t">> }

\* Every character of the text is white space.
OnlyWhiteSpace(text) == \A i \in 1..Len(text) : text[i].c \in WhiteSpace

\* C1 (as claimed): once the response of a translate request with an uploaded
\* file has been sent, the temporary file no longer exists on disk.
C1_FileGoneOnceAnswered ==
    \A r \in Req :
        (HasFile(r) /\ res[r].sent) => reqFile[r].path \notin DOMAIN disk

\* C1 (amended): once the response of a translate request with an uploaded file
\* has been sent, fs.unlink has been called on req.file.path and on no other
\* path, and the temporary file no longer exists unless every one of these
\* calls raised.
C1_FileGoneUnlessUnlinkRaised ==
    \A r \in Req :
        (HasFile(r) /\ res[r].sent) =>
            /\ unlinkCalls[r] # <<>>
            /\ \A i \in 1..Len(unlinkCalls[r]) : unlinkCalls[r][i].path = reqFile[r].path
            /\ reqFile[r].path \in DOMAIN disk =>
                  \A i \in 1..Len(unlinkCalls[r]) : unlinkCalls[r][i].raised

\* A failure response has been sent and the uploaded file is gone.
C1_Witness ==
    \E r \in Req :
        /\ HasFile(r) /\ res[r].sent /\ res[r].status = 500
        /\ reqFile[r].path \notin DOMAIN disk
        /\ Len(unlinkCalls[r]) = 1 /\ ~unlinkCalls[r][1].raised

\* C2: for a translate request with an uploaded file, fs.unlink is called at
\* most once at any time, and exactly once by the time the response is sent.
C2_UnlinkExactlyOnce ==
    \A r \in Req :
        HasFile(r) =>
            /\ Len(unlinkCalls[r]) <= 1
            /\ res[r].sent => Len(unlinkCalls[r]) = 1

\* C3: a chat request whose message is missing, empty or not a string never
\* reaches the gateway and is answered 400 'Valid message is required'.
C3_InvalidMessageRejected ==
    \A r \in Req :
        (/\ route[r] = "chat"
         /\ reqBody[r].message.t # "string" \/ reqBody[r].message.v = "") =>
            /\ gatewayCalls[r] = <<>>
            /\ pc[r] \in {"c_handler", "done"}
            /\ pc[r] = "done" =>
                  /\ res[r].sent /\ res[r].status = 400
                  /\ res[r].body = [error |-> "Valid message is required"]

\* A message that is a number has been answered 400.
C3_Witness ==
    \E r \in Req :
        /\ route[r] = "chat" /\ reqBody[r].message = Num("42")
        /\ reqBody[r].language = Str("English")
        /\ res[r].sent /\ res[r].status = 400

\* C4: the system message of a chat call is the prompt of the requested
\* language when that is one of the eight supported names, and the Chinese
\* prompt for every other language value.
C4_PromptOfLanguage ==
    \A r \in Req :
        (route[r] = "chat" /\ gatewayCalls[r] # <<>>) =>
            gatewayCalls[r][1].system =
                IF /\ reqBody[r].language.t = "string"
                   /\ reqBody[r].language.v \in
                         { "Chinese", "English", "Spanish", "French", "German",
                           "Japanese", "Korean", "Russian" }
                THEN Str(LanguagePrompts[reqBody[r].language.v])
                ELSE Str(LanguagePrompts["Chinese"])

\* C5 (as claimed): an upload whose extension is neither .pdf nor .txt causes
\* no gateway call and is answered with the translate failure envelope.
C5_UnsupportedInEnvelope ==
    \A r \in Req :
        (/\ route[r] = "translate" /\ upload[r].present
         /\ UnsupportedName(upload[r].originalname)) =>
            /\ gatewayCalls[r] = <<>>
            /\ res[r].sent =>
                  /\ res[r].by = "translate" /\ res[r].status = 500
                  /\ res[r].body.error = "Translation failed"

\* C5 (amended): an upload whose extension is neither .pdf nor .txt is rejected
\* by the upload filter with 'Only PDF and TXT files are allowed': nothing is
\* stored, the translate handler never runs (no extraction, no gateway call, no
\* failure envelope) and the framework's error handling answers.
C5_UnsupportedRejectedByFilter ==
    \A r \in Req :
        (/\ route[r] = "translate" /\ upload[r].present
         /\ UnsupportedName(upload[r].originalname)) =>
            /\ pc[r] = "done"
            /\ error[r] = "Only PDF and TXT files are allowed"
            /\ res[r].sent /\ res[r].by = "errorHandler"
            /\ ~reqFile[r].present /\ ~fileData[r].read
            /\ gatewayCalls[r] = <<>> /\ unlinkCalls[r] = <<>>

\* A .docx upload has been rejected.
C5_Witness ==
    \E r \in Req :
        /\ upload[r].present
        /\ upload[r].originalname = <<"d", ".", "d", "o", "c", "x">>
        /\ res[r].sent /\ disk = << >>

\* C6: a .txt upload whose content, once read, is white space only is answered
\* 500 'Translation failed' with message 'Text file is empty', and the gateway
\* is not called.
C6_EmptyTextFileFails ==
    \A r \in Req :
        (/\ HasFile(r)
         /\ ToLowerCase(ExtName(reqFile[r].originalname)) = <<".", "t", "x", "t">>
         /\ fileData[r].read /\ OnlyWhiteSpace(fileData[r].bytes)) =>
            /\ gatewayCalls[r] = <<>>
            /\ pc[r] \in {"t_catch", "t_fail", "done"}
            /\ error[r] = "Text file is empty"
            /\ res[r].sent =>
                  /\ res[r].status = 500
                  /\ res[r].body.error = "Translation failed"
                  /\ res[r].body.message = "Text file is empty"

\* A .TXT file of white space has been answered 500.
C6_Witness ==
    \E r \in Req :
        /\ HasFile(r) /\ reqFile[r].originalname = <<"c", ".", "T", "X", "T">>
        /\ fileData[r].read /\ fileData[r].bytes = <<Run("\n", 1), Run(" ", 2)>>
        /\ res[r].sent /\ res[r].status = 500

\* C7: in a successful translate response originalText is the first 2000
\* characters of the extracted text (all of it when it is shorter) and
\* originalLength is the length of the whole extracted text.
C7_OriginalTextTruncated ==
    \A r \in Req :
        (route[r] = "translate" /\ res[r].sent /\ res[r].status = 200) =>
            LET body == res[r].body
                text == fileContent[r]
            IN /\ body.originalText = Take(text, TruncLimit)
               /\ Length(text) <= TruncLimit => body.originalText = text
               /\ Length(text) > TruncLimit => Length(body.originalText) = TruncLimit
               /\ body.originalLength = Length(text)
               /\ body.originalLength >= Length(body.originalText)
               /\ body.originalText # text => body.originalLength > TruncLimit
               /\ ToLowerCase(ExtName(reqFile[r].originalname)) = <<".", "t", "x", "t">>
                     => text = Utf8Decode(fileData[r].bytes)

\* A text of 2001 characters has been answered with its first 2000.
C7_Witness ==
    \E r \in Req :
        /\ route[r] = "translate" /\ res[r].sent /\ res[r].status = 200
        /\ res[r].body.originalLength = TruncLimit + 1
        /\ res[r].body.originalText = <<Run("a", TruncLimit)>>

\* C8: a translate request without a file is answered 400 'No file uploaded'
\* by the handler's first step and nothing else happens for it: no read, no
\* extraction, no gateway call, no unlink.
C8_MissingFileTerminal ==
    \A r \in Req :
        (route[r] = "translate" /\ ~upload[r].present) =>
            /\ pc[r] \in {"t_handler", "done"}
            /\ ~fileData[r].read /\ fileContent[r] = <<>>
            /\ gatewayCalls[r] = <<>> /\ unlinkCalls[r] = <<>>
            /\ pc[r] = "done" =>
                  /\ res[r].sent /\ res[r].status = 400
                  /\ res[r].body = [error |-> "No file uploaded"]

\* A request without a file has been answered.
C8_Witness ==
    \E r \in Req :
        /\ route[r] = "translate" /\ ~upload[r].present
        /\ pc[r] = "done" /\ res[r].status = 400

C10_EmptyOutputIsSuccess ==
    \A r \in Req :
        (/\ route[r] = "translate" /\ response[r].resolved
         /\ ~HasText(response[r]) /\ error[r] # SendError) =>
            /\ pc[r] \in {"t_cleanup", "t_respond", "done"}
            /\ res[r].sent =>
                  /\ res[r].status = 200
                  /\ res[r].body.translatedText = Str("")

\* The extractor raised for request r: the catch block holds an error and the
\* gateway was never called.
ExtractorFailed(r) == HasFile(r) /\ gatewayCalls[r] = <<>> /\ error[r] # ""

\* The gateway call of request r was rejected.
GatewayFailed(r) ==
    HasFile(r) /\ gatewayCalls[r] # <<>> /\ ~response[r].resolved /\ error[r] # ""

\* The messages the extractor fails with for the file at path.
ExtractorMessages(path) ==
    { "Text file is empty", "PDF contains no readable text", "Invalid PDF structure",
      "Unsupported file type",
      "ENOENT: no such file or directory, open '" \o path \o "'",
      "EACCES: permission denied, open '" \o path \o "'" }

\* The failure envelope of the translate handler, written out.
Envelope(message) ==
    [error |-> "Translation failed", message |-> message,
     suggestion |-> "Please ensure you upload a valid PDF or text file with readable content"]

\* C11 (as claimed): when the extractor or the gateway raised, the temporary
\* file is deleted and the answer is 500 with the envelope that carries the
\* raised error's message.
C11_FailureDeletesFile ==
    \A r \in Req :
        ((ExtractorFailed(r) \/ GatewayFailed(r)) /\ res[r].sent) =>
            /\ reqFile[r].path \notin DOMAIN disk
            /\ res[r].status = 500 /\ res[r].body = Envelope(error[r])

\* C11 (amended): when the extractor or the gateway raised, cleanupFile is
\* called once on the temporary file before the answer (the file is gone unless
\* that fs.unlink raised) and the answer is 500 with exactly the envelope that
\* carries the raised error's message: an extractor message when the extractor
\* failed, the gateway error when the gateway failed.
C11_FailureCleansUpAndReports ==
    \A r \in Req :
        ((ExtractorFailed(r) \/ GatewayFailed(r)) /\ res[r].sent) =>
            /\ Len(unlinkCalls[r]) = 1
            /\ unlinkCalls[r][1].path = reqFile[r].path
            /\ reqFile[r].path \in DOMAIN disk => unlinkCalls[r][1].raised
            /\ res[r].status = 500 /\ res[r].by = "translate"
            /\ res[r].body = Envelope(error[r])
            /\ ExtractorFailed(r) =>
                  res[r].body.message \in ExtractorMessages(reqFile[r].path)
            /\ GatewayFailed(r) => res[r].body.message = "Connection error."
            /\ (fileData[r].read /\ OnlyWhiteSpace(fileData[r].bytes)
                  /\ ToLowerCase(ExtName(reqFile[r].originalname)) = <<".", "t", "x", "t">>)
                  => res[r].body.message = "Text file is empty"

\* A rejected gateway call has been answered with the envelope, the file gone.
C11_Witness ==
    \E r \in Req :
        /\ GatewayFailed(r) /\ res[r].sent
        /\ res[r].body = Envelope("Connection error.")
        /\ reqFile[r].path \notin DOMAIN disk

\* C12: when the gateway call of a chat request is rejected the answer is 500
\* {error: 'Chat failed', message: the error's message}; a chat request never
\* has a file stored, read or unlinked on its behalf.
C12_ChatFailureNoFile ==
    \A r \in Req :
        route[r] = "chat" =>
            /\ ~reqFile[r].present /\ ~upload[r].present
            /\ ~fileData[r].read /\ fileContent[r] = <<>>
            /\ unlinkCalls[r] = <<>>
            /\ (pc[r] = "done" /\ gatewayCalls[r] # <<>> /\ ~response[r].resolved) =>
                  /\ res[r].sent /\ res[r].status = 500
                  /\ res[r].body = [error |-> "Chat failed", message |-> "Connection error."]

\* A rejected chat call has been answered 500.
C12_Witness ==
    \E r \in Req :
        /\ route[r] = "chat" /\ pc[r] = "done"
        /\ gatewayCalls[r] # <<>> /\ ~response[r].resolved
        /\ res[r].status = 500 /\ disk = << >>

\* The text the translate handler reads from a resolved completion.
TextOf(body) == IF HasText(body) THEN Str(body.choices[1].content) ELSE Str("")

\* C13: on every translate path with an uploaded file, fs.unlink has been
\* attempted before the response is sent, and whether it raised does not show
\* in the response: a failure is answered 500 with the message of the primary
\* error, a success 200 with the translation.
C13_CleanupNeverMasks ==
    \A r \in Req :
        (HasFile(r) /\ res[r].sent) =>
            /\ unlinkCalls[r] # <<>>
            /\ error[r] \in ExtractorMessages(reqFile[r].path)
                  \cup { "Connection error.", TypeErrorChoices, SendError, "" }
            /\ IF error[r] = ""
               THEN /\ res[r].status = 200
                    /\ response[r].resolved
                    /\ res[r].body.translatedText = TextOf(response[r])
               ELSE /\ res[r].status = 500
                    /\ res[r].body = Envelope(error[r])

\* A failure answered with the gateway's error although the fs.unlink of the
\* catch block raised and the file is still on disk.
C13_Witness ==
    \E r \in Req :
        /\ HasFile(r) /\ res[r].sent /\ res[r].status = 500
        /\ Len(unlinkCalls[r]) = 1 /\ unlinkCalls[r][1].raised
        /\ reqFile[r].path \in DOMAIN disk
        /\ res[r].body.message = "Connection error."

\* Everything but the answer of the health check.
ServerState ==
    << clientVars, now, served, disk, pc, route, upload, reqFile, reqBody, fileData, fileContent,
       targetLang, language, response, translatedText, error, gatewayCalls,
       unlinkCalls, res >>

\* The answer of a health check is 200 with status 'healthy'.
Healthy(h) ==
    /\ h.sent /\ h.status = 200
    /\ h.body.status = "healthy"
    /\ h.body.services = [fileTranslation |-> "active", chat |-> "active"]

\* C14: GET /health can be answered in every reachable state, its answer is
\* always 200 with status 'healthy' whatever requests are in progress or have
\* failed, and answering it changes nothing else of the server's state.
C14_HealthAlwaysHealthy ==
    /\ [](ENABLED Health)
    /\ [](health.sent => Healthy(health))
    /\ [][health' # health =>
             /\ Healthy(health')
             /\ health'.body.timestamp = now
             /\ UNCHANGED ServerState]_vars

\* A health check answered at the current instant although a request has been
\* answered 500.
C14_Witness ==
    /\ Healthy(health) /\ health.body.timestamp = now
    /\ \E r \in Req : res[r].sent /\ res[r].status = 500

\* Request r is being handled: it has arrived and is not yet answered.
InProgress(r) == pc[r] \notin {"idle", "done"}

\* C15: two translate uploads handled at the same time have different temporary
\* file names, so that a request reads the bytes it uploaded and unlinks only
\* its own file.
C15_DistinctTempFiles ==
    \A r \in Req :
        /\ \A q \in Req :
              (r # q /\ HasFile(r) /\ HasFile(q) /\ InProgress(r) /\ InProgress(q))
                  => reqFile[r].path # reqFile[q].path
        /\ (HasFile(r) /\ fileData[r].read) => fileData[r].bytes = upload[r].data

\* The text of the file request r itself uploaded.
OwnText(r) == ExtractTxt(upload[r].data)

\* What the gateway answered to request r: nothing when it was not called, the
\* completion when the call resolved, the rejection otherwise.
GatewayAnswer(r) ==
    IF gatewayCalls[r] = <<>> THEN [called |-> FALSE, resolved |-> FALSE, body |-> NoCompletion]
    ELSE [called |-> TRUE, resolved |-> response[r].resolved, body |-> response[r]]

\* fs.readFile failed on a file that exists: a fault of the file system itself.
ReadFault(r) == error[r] = ReadError("EACCES", reqFile[r].path)

\* Request r uploaded a text file.
TextUpload(r) ==
    HasFile(r) /\ ToLowerCase(ExtName(reqFile[r].originalname)) = <<".", "t", "x", "t">>

\* C16: the response to a request is determined by the request's own input and
\* by the gateway's answer to it, whatever other requests are handled at the
\* same time: a translate request is answered from the text it uploaded, fails
\* only on its own text or its own gateway call, and two requests of equal
\* input and equal gateway answer get equal responses.
C16_ResponseOfOwnInput ==
    \A r \in Req :
        /\ (TextUpload(r) /\ gatewayCalls[r] # <<>>) =>
              gatewayCalls[r][1].user = Substring(OwnText(r).text, TruncLimit)
        /\ (TextUpload(r) /\ res[r].sent /\ res[r].status = 200) =>
              res[r].body = SuccessBody(OwnText(r).text, TranslatedText(response[r]),
                                        TargetLang(reqBody[r]))
        /\ (TextUpload(r) /\ res[r].sent /\ res[r].status = 500 /\ ~ReadFault(r)) =>
              \/ OwnText(r).threw /\ res[r].body = Envelope(OwnText(r).message)
              \/ GatewayAnswer(r).called
        /\ \A q \in Req :
              (/\ res[r].sent /\ res[q].sent
               /\ route[r] = route[q] /\ upload[r] = upload[q] /\ reqBody[r] = reqBody[q]
               /\ route[r] = "chat" \/ TextUpload(r)
               /\ ~ReadFault(r) /\ ~ReadFault(q)
               /\ GatewayAnswer(r) = GatewayAnswer(q))
                  => res[r] = res[q]

\* The message names the path: it is a file-system error message, which quotes
\* the path of the file the call was made on.
MentionsPath(message, path) ==
    \E code \in {"ENOENT", "EACCES"} : message = ReadError(code, path)

\* C17: the message of a failure response of the translate route never
\* contains the server-side path of the temporary file, in particular when
\* reading the temporary file fails.
C17_NoServerPathInMessage ==
    \A r \in Req :
        (HasFile(r) /\ res[r].sent /\ res[r].status = 500 /\ res[r].by = "translate") =>
            ~MentionsPath(res[r].body.message, reqFile[r].path)

\* The name of the language a translate request asks for: its targetLanguage
\* field, 'Chinese' when the field is absent or empty.
AskedLanguage(r) ==
    IF reqBody[r].targetLanguage \in {Undefined, Str("")}
    THEN "Chinese"
    ELSE reqBody[r].targetLanguage.v

\* C18: the system prompt sent to the gateway names the targetLanguage of the
\* request, 'Chinese' when none was specified (the field absent or empty), and
\* the language field of every success response is the language that prompt
\* names.
C18_LanguageOfPrompt ==
    \A r \in Req :
        /\ (HasFile(r) /\ gatewayCalls[r] # <<>>) =>
              /\ Len(gatewayCalls[r]) = 1
              /\ gatewayCalls[r][1].system =
                    "Translate the following text to " \o AskedLanguage(r)
                        \o " while maintaining the original meaning and tone:"
        /\ (HasFile(r) /\ res[r].sent /\ res[r].status = 200) =>
              /\ gatewayCalls[r] # <<>>
              /\ res[r].body.language = Str(AskedLanguage(r))

\* A success response in Chinese to a request that named no language.
C18_Witness ==
    \E r \in Req :
        /\ HasFile(r) /\ res[r].sent /\ res[r].status = 200
        /\ reqBody[r].targetLanguage = Undefined
        /\ res[r].body.language = Str("Chinese")
        /\ gatewayCalls[r][1].system =
              "Translate the following text to Chinese while maintaining the original meaning and tone:"

\* The state of the translate state machine request r is in: Received when the
\* handler is about to start, Validated once req.file was found, Extracted once
\* the text was returned, Translated once the gateway resolved with a body the
\* text could be read from, Responded once the 200 was sent, Failed from the
\* moment an error exit was taken.
Stage(r) ==
    IF route[r] # "translate" THEN "None"
    ELSE IF pc[r] = "t_handler" THEN "Received"
    ELSE IF pc[r] \in {"t_readFile", "t_pdfParse"} THEN "Validated"
    ELSE IF pc[r] \in {"t_extracted", "t_awaitGateway"} THEN "Extracted"
    ELSE IF pc[r] \in {"t_cleanup", "t_respond"} THEN "Translated"
    ELSE IF pc[r] = "done" /\ res[r].status = 200 THEN "Responded"
    ELSE "Failed"

\* The moves of the state machine.
StageOrder ==
    { <<"None", "Received">>, <<"Received", "Validated">>, <<"Validated", "Extracted">>,
      <<"Extracted", "Translated">>, <<"Translated", "Responded">> }
        \cup { <<s, "Failed">> :
                  s \in {"None", "Received", "Validated", "Extracted", "Translated"} }

\* Everything the handler of request r holds.
RequestState(r) ==
    << pc[r], route[r], upload[r], reqFile[r], reqBody[r], fileData[r], fileContent[r],
       targetLang[r], response[r], translatedText[r], error[r], gatewayCalls[r],
       unlinkCalls[r], res[r] >>

\* C19 (as claimed, the part about the file): the success response is sent only
\* after the temporary file was deleted.
C19_SuccessAfterFileDeleted ==
    \A r \in Req :
        Stage(r) = "Responded" =>
            /\ response[r].resolved
            /\ reqFile[r].path \notin DOMAIN disk

\* C19 (amended): a translate request moves Received, Validated, Extracted,
\* Translated, Responded in that order and leaves the order only to Failed; the
\* gateway is called only after the extraction returned a text; the success
\* response is sent only after the gateway resolved and cleanupFile was called
\* on the file (which deletes it unless fs.unlink raised); once Failed a request
\* stays Failed, and after its response no step of the request happens.
C19_StageOrder ==
    /\ [][\A r \in Req :
             /\ Stage(r)' # Stage(r) =>
                   \/ << Stage(r), Stage(r)' >> \in StageOrder
                   \/ pc[r] = "done" /\ pc'[r] = "idle"
             /\ pc[r] = "done" =>
                   \/ RequestState(r)' = RequestState(r)
                   \/ pc'[r] = "idle"]_vars
    /\ [](\A r \in Req :
             (route[r] = "translate" /\ gatewayCalls[r] # <<>>) =>
                 /\ Stage(r) \in {"Extracted", "Translated", "Responded", "Failed"}
                 /\ fileData[r].read
                 /\ Trim(fileContent[r]) # <<>>
                 /\ error[r] \notin ExtractorMessages(reqFile[r].path))
    /\ [](\A r \in Req :
             Stage(r) = "Responded" =>
                 /\ gatewayCalls[r] # <<>> /\ response[r].resolved
                 /\ Len(unlinkCalls[r]) = 1
                 /\ unlinkCalls[r][1].path = reqFile[r].path
                 /\ reqFile[r].path \in DOMAIN disk => unlinkCalls[r][1].raised)

\* A request has gone through the whole order and its file is gone.
C19_Witness ==
    \E r \in Req :
        /\ Stage(r) = "Responded"
        /\ Len(unlinkCalls[r]) = 1 /\ ~unlinkCalls[r][1].raised
        /\ reqFile[r].path \notin DOMAIN disk

\* C20: every chat or translate request whose handler has started is
\* eventually answered, given that the event loop runs and every gateway call
\* and file operation returns or raises; a response once sent is never followed
\* by another one; and whatever failed, a free slot still takes a new request.
C20_ExactlyOneResponse ==
    /\ \A r \in Req :
          (pc[r] \in {"t_handler", "c_handler"}) ~> (pc[r] = "done" /\ res[r].sent)
    /\ [][\A r \in Req : res[r].sent => (res'[r] = res[r] \/ pc'[r] = "idle")]_vars
    /\ [](\A r \in Req : (pc[r] = "done") => res[r].sent)
    /\ [](\A r \in Pair :
             Fresh(r) => ENABLED (ConcTranslateArrive(r) \/ ConcChatRequest(r)))

\* A request was answered 500 after its gateway call failed, and a request that
\* arrived later was answered 200.
C20_Witness ==
    \E r, q \in Req :
        /\ r < q
        /\ pc[r] = "done" /\ res[r].status = 500 /\ error[r] = "Connection error."
        /\ pc[q] = "done" /\ res[q].status = 200

\* The gateway call of request r was rejected.
GatewayRejected(r) ==
    gatewayCalls[r] # <<>> /\ ~response[r].resolved /\ error[r] \in GatewayErrors

\* C21: a chat or translate request makes at most one call of the gateway; once
\* that call was rejected the request is in its catch block or answered 500, and
\* no step of it calls the gateway again.
C21_SingleShotGateway ==
    /\ [](\A r \in Req : Len(gatewayCalls[r]) <= 1)
    /\ [](\A r \in Req :
             GatewayRejected(r) =>
                 /\ pc[r] \in {"t_catch", "t_fail", "done"}
                 /\ pc[r] = "done" => (res[r].sent /\ res[r].status = 500))
    /\ [][\A r \in Req :
             (GatewayRejected(r) /\ pc'[r] # "idle") =>
                 gatewayCalls'[r] = gatewayCalls[r]]_vars

\* The rejected gateway call of a translate request was answered 500 after a
\* single call.
C21_Witness ==
    \E r \in Req :
        /\ route[r] = "translate" /\ GatewayRejected(r)
        /\ Len(gatewayCalls[r]) = 1
        /\ pc[r] = "done" /\ res[r].status = 500

\* C22: the user content of the gateway call of a translate request is the
\* extracted text cut to its first 2000 characters: it is never longer than
\* 2000 characters and it is the originalText of the success response.
C22_UserContentTruncated ==
    \A r \in Req :
        (HasFile(r) /\ gatewayCalls[r] # <<>>) =>
            /\ gatewayCalls[r][1].user = Take(fileContent[r], 2000)
            /\ Length(gatewayCalls[r][1].user) <= 2000
            /\ Length(fileContent[r]) <= 2000 => gatewayCalls[r][1].user = fileContent[r]
            /\ (res[r].sent /\ res[r].status = 200) =>
                  res[r].body.originalText = gatewayCalls[r][1].user

\* A text of 2001 characters was sent as 2000 and answered.
C22_Witness ==
    \E r \in Req :
        /\ HasFile(r) /\ res[r].sent /\ res[r].status = 200
        /\ Length(fileContent[r]) = 2001
        /\ Length(gatewayCalls[r][1].user) = 2000
        /\ res[r].body.originalText = gatewayCalls[r][1].user


(***************************************************************************)
(* Properties of the browser application.                                  *)
(***************************************************************************)
\* The conversation with this id is in the list.
InList(list, id) == \E i \in 1..Len(list) : list[i].id = id

\* C28: after any sequence of createNewChat, copyChat, togglePin, deleteChat
\* and 'Clear all conversations', every id in the pinned list is the id of a
\* conversation that is in the conversation list.
C28_PinnedAreListed ==
    \A k \in 1..Len(pinnedChats) : InList(chats, pinnedChats[k])

\* C28 witness: a conversation was deleted, its id is not pinned, and another
\* conversation is still pinned.
C28_Witness ==
    /\ deleted # {}
    /\ pinnedChats # <<>>
    /\ \A id \in deleted : ~Includes(pinnedChats, id)

\* C29: after any sequence of createNewChat and copyChat, all conversations
\* in the list have pairwise distinct ids, so that deleteChat(id) removes
\* exactly one conversation.
C29_DistinctIds ==
    \A i, j \in 1..Len(chats) : i # j => chats[i].id # chats[j].id


\* C23: a conversation leaves the conversation list only through deleteChat
\* for that conversation or through 'Clear all conversations'; in particular
\* one created while a request is in flight is still in the list after the
\* reply or error of that request has been applied.
C23_LeavesOnlyByUserAction ==
    [][ \A i \in 1..Len(chats) :
           \/ InList(chats', chats[i].id)
           \/ \E k \in 1..Len(chats) : chats[k].id = chats[i].id /\ deleteChat(k)
           \/ ClearAll ]_vars

\* The request of sendMessage is in flight and the user has done nothing since.
Undisturbed ==
    /\ call.active /\ call.kind = "chat"
    /\ currentChat = call.updatedChat
    /\ chats = ReplaceChat(call.chats, call.currentChat.id, call.updatedChat)

\* The conversation holds the user message followed by a bot reply, under the
\* title taken from the user message.
FirstExchange(chat, userMessage) ==
    /\ chat # Null
    /\ Len(chat.messages) = 2
    /\ chat.messages[1] = userMessage
    /\ chat.messages[2].sender = "bot"
    /\ chat.title = TitleOf(userMessage.content)

\* C24: after the first successful exchange in a newly created conversation,
\* the conversation's entry in the list and the selected conversation both
\* hold the user message followed by the bot reply, and the title is the first
\* 30 characters of the user message, with '...' appended when it was longer.
C24_FirstExchangeKept ==
    [][ ( /\ Undisturbed
          /\ call.currentChat.messages = <<>>
          /\ StartsWithNewConversation(call.currentChat.title)
          /\ ChatReply )
        => /\ FirstExchange(currentChat', call.userMessage)
           /\ \A i \in 1..Len(chats') :
                 chats'[i].id = call.currentChat.id
                    => FirstExchange(chats'[i], call.userMessage) ]_vars

\* C25: once deleteChat(id) has been confirmed, the conversation with that id
\* is never in the conversation list again and is never the selected
\* conversation again, whatever request completes afterwards.
C25_DeletedStaysDeleted ==
    \A id \in deleted :
       /\ ~InList(chats, id)
       /\ currentChat # Null => currentChat.id # id

\* C26: the fields the upload continuation reads from the success body of
\* /api/translate are fields of that body, and the preview it shows is the
\* originalText of the body.
C26_PreviewIsOriginalText ==
    uploadData.read
       => /\ {"contentPreview", "translatedText"} \subseteq DOMAIN uploadData.body
          /\ ContentPreview(uploadData.body) = uploadData.body.originalText

\* C27: the language of every chat request the client sends is a key of the
\* server's languagePrompts, so the server answers it under that language's
\* own prompt and not under the Chinese fallback.
C27_PickedLanguageHasPrompt ==
    (call.active /\ call.kind = "chat")
       => /\ call.request.language \in DOMAIN LanguagePrompts
          /\ SystemPrompt(Str(call.request.language))
                = Str(LanguagePrompts[call.request.language])

\* C30: once the mount effects have run, once or twice, the conversation list
\* is the list the load effect first read from 'trainify-chats', and
\* localStorage holds that list again.
C30_MountKeepsStoredChats ==
    [][ (MountCommit /\ queued.chats # <<>>)
        => /\ chats' = queued.chats[1]
           /\ storage'.chats = StringifyChats(queued.chats[1]) ]_vars

====
